---- MODULE Spec2Model ----
(***************************************************************************)
(* Session pool, session orchestrator and tiered memory keeper of the      *)
(* agent-memory service (memory/session_pool.py, memory/orchestrator.py,   *)
(* memory/current_memory_keeper.py, server/main.py).                       *)
(*                                                                         *)
(* Every coroutine of the service runs on one asyncio event loop and calls *)
(* the storage and model clients synchronously, so a request handler, one  *)
(* run of the TTL sweep and one background task each run from start to end *)
(* without giving up the loop.  The program state is threaded through the  *)
(* code's functions as a record ("world"); an action applies a handler to  *)
(* the current world and commits the result.                               *)
(***************************************************************************)
EXTENDS Integers, Sequences, FiniteSets, TLC

VARIABLES
    K,             \* config.K_TURN_BUFFER (buffer_size), fixed at start-up
    max_sessions,  \* SessionPool.max_sessions, fixed at start-up
    sessions,      \* SessionPool.sessions: the OrderedDict's keys, oldest first
    state,         \* SessionPool.sessions: key -> SessionState; last_accessed
                   \* is kept relative to datetime.utcnow(): 0 is now, -n is
                   \* n ticks ago, and nothing is older than SESSION_TTL + 1
    orch,          \* heap of MemoryServiceOrchestrator / CurrentMemoryKeeper objects
    nextOrch,      \* next free heap slot
    summaries,     \* summaries container: key -> session document
    insights,      \* insights container: whether it holds an insight of the user
    interactions,  \* interactions container: key -> stored chunks, oldest first
    tasks,         \* coroutines handed to asyncio.create_task, not yet run
    inflight,      \* get_or_create calls between construction and insertion
    pruning,       \* maybe_prune calls inside await _update_cumulative_summary
    sweep,         \* position of evict_stale_sessions
    background_tasks_running, \* main.py's flag: the eviction loop is to go on
    ready,         \* StartSession requests queued on the event loop, per key
    nturns,        \* per key: turns handed to process_turn so far
    accepted,      \* per key: turns whose process_turn returned normally
    endedKeys,     \* keys whose end_session has returned
    evictedSum,    \* per key: summary held by the dirty entry last evicted
    served,        \* per key: who get_or_create answered since the key entered the pool
    client,        \* orchestrators a library caller built and holds itself
    memory,        \* the caller's CosmosAgentMemory
    provider,      \* the caller's CosmosMemoryProvider, when it wraps the memory
    ends,          \* per key: times orchestrator.end_session was invoked for it
    cm,            \* the caller's position around its `async with` block
    called,        \* the call such a caller made last
    raised,        \* what the last handler or call raised to its caller
    trace          \* what the last handler did to the pool and its records, in
                   \* program order; empty when it removed no entry

vars == <<K, max_sessions, background_tasks_running, memory, provider, ends, cm, pruning, sessions, state, orch, nextOrch, summaries, insights,
          interactions,
          tasks, inflight, sweep, ready, nturns, accepted, endedKeys,
          evictedSum, served, client, called, raised, trace>>

-----------------------------------------------------------------------------
(* Bounds of the model *)

MaxKeys == 3
MaxServerKeys == 2
MaxTalkers == 1
MaxK == 3
ServerK == 3
MaxLibTurns == 5
MaxChunks == 3
MaxOrch == 3
MaxCalls == 2
MaxReady == 2
MaxInitQueries == 2

(* Configuration of the pool *)

MAX_SESSIONS == 1
MaxPoolSessions == 2
SESSION_TTL == 1

Keys == 1..MaxKeys

\* The sessions the requests of Spec and LoopSpec name
ServerKeys == 1..MaxServerKeys

\* The sessions that receive store_turn and end_session requests
Talkers == 1..MaxTalkers
OrchIds == 1..MaxOrch

-----------------------------------------------------------------------------
(* Sequences *)

Range(s) == {s[i] : i \in DOMAIN s}

Without(s, x) == SelectSeq(s, LAMBDA y : y # x)

\* Python's s[n:]
DropFirst(s, n) == IF n >= Len(s) THEN <<>> ELSE SubSeq(s, n + 1, Len(s))

\* Python's s[:n]
TakeFirst(s, n) == IF n >= Len(s) THEN s ELSE SubSeq(s, 1, n)

\* Python's s[-n:]; s[-0:] is the whole list
TakeLast(s, n) ==
    IF n = 0 \/ n >= Len(s) THEN s ELSE SubSeq(s, Len(s) - n + 1, Len(s))

RECURSIVE Concat(_)
Concat(ss) == IF ss = <<>> THEN <<>> ELSE Head(ss) \o Concat(Tail(ss))

-----------------------------------------------------------------------------
(* Data *)

\* A ConversationTurn.  id numbers the turns of a session in the order they
\* were handed in; content is "text" (one line), "multi" (the text holds a
\* line break followed by free text) or "head" (the first line of such a text).
Turn(role, id, content) == [role |-> role, id |-> id, content |-> content]

Contents == {"text", "multi"}

\* f"{turn.role}: {turn.content}", as the lines it makes once split on "\n"
TurnLines(t) ==
    IF t.content = "multi"
    THEN << [prefix |-> t.role, id |-> t.id, text |-> "head"],
            [prefix |-> "none", id |-> t.id, text |-> "rest"] >>
    ELSE << [prefix |-> t.role, id |-> t.id, text |-> t.content] >>

\* "\n".join(f"{turn.role}: {turn.content}" for turn in turns)
ConversationText(turns) == Concat([i \in DOMAIN turns |-> TurnLines(turns[i])])

\* restore_session's parse of a stored content: a line is a turn iff it starts
\* with "user: " or "assistant: "
ParseContent(lines) ==
    LET kept == SelectSeq(lines, LAMBDA l : l.prefix \in {"user", "assistant"})
    IN  [i \in DOMAIN kept |-> Turn(kept[i].prefix, kept[i].id, kept[i].text)]

TurnIds(turns) == {turns[i].id : i \in DOMAIN turns}

\* A cumulative summary is 0 for the empty text and n > 0 for the text the
\* model returned at the n-th successful merge.  A field a document does not
\* have is -1 (numbers) or "absent" (status).
NoDoc ==
    [exists |-> FALSE, status |-> "absent", cumulative_summary |-> -1,
     turn_count |-> -1, summary |-> -1]

Doc(status, cumulative_summary, turn_count, summary) ==
    [exists |-> TRUE, status |-> status, cumulative_summary |-> cumulative_summary,
     turn_count |-> turn_count, summary |-> summary]

\* self.session_init_context = None
NoContext == [loaded |-> FALSE, longterm_insight |-> FALSE, recent_summaries |-> {}]

\* models.SessionInitContext: whether the insights query returned anything,
\* and the sessions whose summaries the summaries query returned
SessionInitContext(longterm_insight, recent_summaries) ==
    [loaded |-> TRUE, longterm_insight |-> longterm_insight,
     recent_summaries |-> recent_summaries]

\* CurrentMemoryKeeper.__init__ (with the orchestrator that owns it); ended
\* records that the orchestrator's end_session has returned
NewKeeper(k) ==
    [key |-> k, turn_buffer |-> <<>>, cumulative_summary |-> 0,
     session_init_context |-> NoContext, init_queries |-> 0,
     session_started |-> FALSE, ended |-> FALSE]

FreeSlot == NewKeeper(0)

NoState == [orch |-> 0, last_accessed |-> 0, dirty |-> FALSE]

\* SessionState.__init__
SessionState(o, t) == [orch |-> o, last_accessed |-> t, dirty |-> FALSE]

IdleSweep == [pc |-> "idle", to_evict |-> <<>>]

\* StoppedSweep, were the loop `while True`: it sleeps again
NeverStoppedSweep == [pc |-> "idle", to_evict |-> <<>>]

\* background_eviction_loop has left its while loop
StoppedSweep == [pc |-> "stopped", to_evict |-> <<>>]

\* CosmosAgentMemory.__init__: no session, no orchestrator (0 is None)
NoMemory == [session_started |-> FALSE, session_id |-> 0, orchestrator |-> 0]

\* CosmosMemoryProvider.__init__ over a memory of its own; `used` tells
\* whether the caller wraps its memory in a provider at all
NoProvider == [used |-> FALSE, session_active |-> FALSE]

-----------------------------------------------------------------------------
(* The world a handler runs in: the mutable program state, the exception in *)
(* flight (exc), and what get_or_create found (path, ret).                  *)

World ==
    [sessions |-> sessions, state |-> state, orch |-> orch, nextOrch |-> nextOrch,
     summaries |-> summaries, insights |-> insights, interactions |-> interactions,
     tasks |-> tasks,
     evictedSum |-> evictedSum, served |-> served,
     memory |-> memory, provider |-> provider,
     trace |-> <<>>, exc |-> "none", path |-> "none", ret |-> 0, fired |-> FALSE]

Ev(w, e, k) ==
    [w EXCEPT !.trace = Append(@, [ev |-> e, key |-> k, dirty |-> FALSE, by |-> "none"])]

\* An entry leaving the key map: whether it was dirty, and who removed it
EvDel(w, k, dirty, by) ==
    [w EXCEPT !.trace = Append(@, [ev |-> "del", key |-> k, dirty |-> dirty, by |-> by])]

Raise(w, e) == [w EXCEPT !.exc = e]

\* Swallow, were the handler to let the exception through
LetThrough(w) == w

\* except Exception: print(...)
Swallow(w) == [w EXCEPT !.exc = "none"]

InPool(w, k) == k \in Range(w.sessions)

-----------------------------------------------------------------------------
(* memory/cosmos_utils.py and the containers *)

\* CosmosUtils.upsert_document on the summaries container: upsert_item stores
\* the document it is given in place of the one with the same id
UpsertSummary(w, k, doc, ok) ==
    IF ok
    THEN Ev([w EXCEPT !.summaries[k] = doc], "write", k)
    ELSE Raise(w, "Exception")

\* CosmosUtils.upsert_document on the interactions container
UpsertInteraction(w, k, content, ok) ==
    IF ok
    THEN Ev([w EXCEPT !.interactions[k] = Append(@, content)], "chunk", k)
    ELSE Raise(w, "Exception")

-----------------------------------------------------------------------------
(* memory/current_memory_keeper.py *)

\* CurrentMemoryKeeper.initialize_session_context
InitializeSessionContext(w, o) ==
    LET longterm_insight == w.insights
        recent_summaries == {k \in Keys : w.summaries[k].status = "completed"}
    IN  [w EXCEPT !.orch[o].session_init_context =
                      SessionInitContext(longterm_insight, recent_summaries),
                  !.orch[o].init_queries = IF @ < MaxInitQueries THEN @ + 1 ELSE @,
                  !.orch[o].session_started = TRUE]

\* add_turn, were it to put the new turn in front of the buffer
AddTurnInFront(w, o, turn) == [w EXCEPT !.orch[o].turn_buffer = <<turn>> \o @]

\* CurrentMemoryKeeper.add_turn
AddTurn(w, o, turn) == [w EXCEPT !.orch[o].turn_buffer = Append(@, turn)]

\* _update_cumulative_summary, were it to return the blank text it was given
UpdateCumulativeSummaryBlank(old_summary, llm) ==
    IF llm = "empty" THEN 0 ELSE old_summary + 1

\* CurrentMemoryKeeper._update_cumulative_summary; llm is what the model call
\* does: "ok" (a text), "empty" (nothing parsed or a blank text), "raise"
UpdateCumulativeSummary(old_summary, llm) ==
    IF llm = "empty" THEN old_summary ELSE old_summary + 1

\* PrunedBuffer, were it to keep the last of the turns handed to the chunk
PrunedBufferOverlapping(buf) == DropFirst(buf, K - 1)

\* The buffer maybe_prune keeps: self.turn_buffer[K_TURN_BUFFER:]
PrunedBuffer(buf) == DropFirst(buf, K)

\* BelowK, were the test to be off by one
BelowKLess(buf) == Len(buf) < K - 1

\* maybe_prune's test: len(self.turn_buffer) < self.config.K_TURN_BUFFER
BelowK(buf) == Len(buf) < K

\* CurrentMemoryKeeper.maybe_prune
MaybePrune(w, o, llm) ==
    LET keeper == w.orch[o]
        turns_to_prune == TakeFirst(keeper.turn_buffer, K)
        old_summary == keeper.cumulative_summary
        new_summary == UpdateCumulativeSummary(old_summary, llm)
    IN  IF BelowK(keeper.turn_buffer)
        THEN [w EXCEPT !.fired = FALSE]
        ELSE IF llm = "raise"
        THEN Raise(w, "Exception")
        ELSE [w EXCEPT
                !.orch[o].cumulative_summary =
                    IF new_summary # 0 THEN new_summary ELSE old_summary,
                !.orch[o].turn_buffer = PrunedBuffer(keeper.turn_buffer),
                !.tasks = @ \o << [kind |-> "summary", orch |-> o, turns |-> <<>>],
                                  [kind |-> "chunk", orch |-> o, turns |-> turns_to_prune] >>,
                !.fired = TRUE]

\* maybe_prune up to its await: the turns it selected and the summary it read,
\* for the process_turn call that handed in turn number call
MaybePruneSelect(w, o, call) ==
    [orch |-> o, call |-> call,
     turns_to_prune |-> TakeFirst(w.orch[o].turn_buffer, K),
     old_summary |-> w.orch[o].cumulative_summary]

\* maybe_prune from the return of _update_cumulative_summary to its own
MaybePruneResume(w, p, llm) ==
    LET o == p.orch
        new_summary == UpdateCumulativeSummary(p.old_summary, llm)
    IN  IF llm = "raise"
        THEN Raise(w, "Exception")
        ELSE [w EXCEPT
                !.orch[o].cumulative_summary =
                    IF new_summary # 0 THEN new_summary ELSE p.old_summary,
                !.orch[o].turn_buffer = PrunedBuffer(w.orch[o].turn_buffer),
                !.tasks = @ \o << [kind |-> "summary", orch |-> o, turns |-> <<>>],
                                  [kind |-> "chunk", orch |-> o,
                                   turns |-> p.turns_to_prune] >>,
                !.fired = TRUE]

\* CurrentMemoryKeeper._update_session_summary_async, when the loop runs it
UpdateSessionSummaryAsync(w, o, ok) ==
    LET keeper == w.orch[o]
    IN  Swallow(UpsertSummary(w, keeper.key,
            Doc("absent", keeper.cumulative_summary, Len(keeper.turn_buffer), -1), ok))

\* CurrentMemoryKeeper._process_interaction_async, when the loop runs it
ProcessInteractionAsync(w, o, turns, ok) ==
    Swallow(UpsertInteraction(w, w.orch[o].key, ConversationText(turns), ok))

\* CurrentMemoryKeeper.final_prune; llm_ok is false when the model call of
\* _generate_metadata raises, ok is false when the upsert of the chunk does
FinalPrune(w, o, llm_ok, ok) ==
    LET keeper == w.orch[o]
    IN  IF Len(keeper.turn_buffer) = 0
        THEN w
        ELSE IF ~llm_ok THEN Raise(w, "Exception")
        ELSE LET w1 == UpsertInteraction(w, keeper.key,
                                         ConversationText(keeper.turn_buffer), ok)
             IN  IF w1.exc # "none" THEN w1
                 ELSE [w1 EXCEPT !.orch[o].turn_buffer = <<>>]

\* One element of context_parts: what it is and the value it carries
Line(text, value) == <<text, value>>

\* context_parts.append("")
Blank == Line("", 0)

\* A set of session keys as the list a query returns
RECURSIVE QueryResults(_)
QueryResults(S) ==
    IF S = {} THEN <<>>
    ELSE LET first == CHOOSE x \in S : \A y \in S : x <= y
         IN  <<first>> \o QueryResults(S \ {first})

\* CurrentMemoryKeeper._format_session_init_block
FormatSessionInitBlock(session_init_context) ==
    IF ~session_init_context.loaded
    THEN <<>>
    ELSE LET recent == QueryResults(session_init_context.recent_summaries)
         IN  <<Line("<session_initialization>", 0)>>
             \o (IF session_init_context.longterm_insight
                 THEN <<Line("### Key Insights", 0), Line("insight", 0), Blank>>
                 ELSE <<>>)
             \o (IF session_init_context.recent_summaries # {}
                 THEN <<Line("### Recent Session Summaries", 0)>>
                      \o [i \in DOMAIN recent |-> Line("- end_time: summary", recent[i])]
                      \o <<Blank>>
                 ELSE <<>>)
             \o <<Line("</session_initialization>", 0), Blank>>

\* CurrentMemoryKeeper.get_current_context: the parts it joins by newlines
GetCurrentContext(keeper, N_ACTIVE_TURNS) ==
    LET active_turns == TakeLast(keeper.turn_buffer, N_ACTIVE_TURNS)
    IN  (IF keeper.session_init_context.loaded
         THEN FormatSessionInitBlock(keeper.session_init_context)
         ELSE <<>>)
        \o (IF keeper.cumulative_summary # 0
            THEN <<Line("### Conversation Summary", 0),
                   Line("cumulative_summary", keeper.cumulative_summary), Blank>>
            ELSE <<>>)
        \o (IF keeper.turn_buffer # <<>>
            THEN <<Line("### Active Conversation", 0)>>
                 \o [i \in DOMAIN active_turns |-> Line("role: content", active_turns[i].id)]
            ELSE <<>>)

\* "\n".join(parts) = ""
IsEmptyText(parts) == parts = <<>> \/ parts = <<Blank>>

\* The guard of update_session_metadata: the document read back is completed
SkipsCompleted(doc) == doc.exists /\ doc.status = "completed"

\* CurrentMemoryKeeper.update_session_metadata
UpdateSessionMetadata(w, o, cumulative_summary, turn_count, ok) ==
    LET k == w.orch[o].key
    IN  IF SkipsCompleted(w.summaries[k])
        THEN Ev(w, "skip", k)
        ELSE Swallow(UpsertSummary(w, k,
                 Doc("absent", cumulative_summary, turn_count, -1), ok))

-----------------------------------------------------------------------------
(* memory/orchestrator.py *)

\* OFFSET 0 LIMIT 2 of restore_session's query on the interactions container
RESTORE_CHUNK_LIMIT == 2

\* MemoryServiceOrchestrator.restore_session
RestoreSession(w, o) ==
    LET k == w.orch[o].key
        session_meta == w.summaries[k]
        interaction_docs == TakeLast(w.interactions[k], RESTORE_CHUNK_LIMIT)
        restored_turns ==
            Concat([i \in DOMAIN interaction_docs |-> ParseContent(interaction_docs[i])])
        cumulative_summary ==
            IF session_meta.cumulative_summary = -1 THEN 0
            ELSE session_meta.cumulative_summary
    IN  IF ~session_meta.exists THEN Raise(w, "ValueError")
        ELSE IF session_meta.status # "active" THEN Raise(w, "ValueError")
        ELSE InitializeSessionContext(
                 [w EXCEPT !.orch[o].cumulative_summary = cumulative_summary,
                           !.orch[o].turn_buffer = TakeLast(restored_turns, K),
                           !.path = "restore"], o)

\* MemoryServiceOrchestrator.initialize_session
InitializeSession(w, o, ok) ==
    LET w1 == UpsertSummary(w, w.orch[o].key, Doc("active", 0, 0, -1), ok)
    IN  IF w1.exc # "none" THEN w1
        ELSE InitializeSessionContext([w1 EXCEPT !.path = "init"], o)

\* MemoryServiceOrchestrator.get_current_context
OrchGetCurrentContext(w, o) ==
    [active_turns |-> w.orch[o].turn_buffer,
     cumulative_summary |-> w.orch[o].cumulative_summary]

\* MemoryServiceOrchestrator.process_turn
ProcessTurn(w, o, user_turn, agent_turn, llm) ==
    MaybePrune(AddTurn(AddTurn(w, o, user_turn), o, agent_turn), o, llm)

-----------------------------------------------------------------------------
(* memory/reflection.py *)

\* "Brief session with minimal interaction."
BRIEF_SUMMARY == -3

\* "Session completed with discussion."
FALLBACK_SUMMARY == -2

\* ReflectionProcess._generate_comprehensive_analysis: the summary of the
\* analysis; the model's own summary is the cumulative summary it was given
GenerateComprehensiveAnalysis(cumulative_summary, llm_ok) ==
    IF llm_ok THEN cumulative_summary ELSE FALLBACK_SUMMARY

\* ReflectionProcess.reflect_on_session: the session summary it returns
ReflectOnSession(cumulative_summary, recent_turns, llm_ok) ==
    IF cumulative_summary = 0 /\ recent_turns = <<>>
    THEN BRIEF_SUMMARY
    ELSE GenerateComprehensiveAnalysis(cumulative_summary, llm_ok)

-----------------------------------------------------------------------------
(* memory/orchestrator.py: the end of a session *)

\* MemoryServiceOrchestrator.end_session; fail names the call that raises:
\* "metadata" (the model call of final_prune), "flush" (the chunk upsert of
\* final_prune), "analysis" (the model call of the session analysis),
\* "record" (the summary embedding or the upsert of the session document),
\* "record_once" (that upsert, which would succeed if issued again),
\* "insights" (storing the first insight), or "none"; "no_insights" is the
\* analysis that finds no insight to store
EndSessionOrch(w, o, fail) ==
    LET keeper == w.orch[o]
        recent_turns == keeper.turn_buffer
        w1 == FinalPrune(w, o, fail # "metadata", fail # "flush")
        session_summary == ReflectOnSession(keeper.cumulative_summary, recent_turns,
                                            fail # "analysis")
        has_insights == /\ session_summary \notin {BRIEF_SUMMARY, FALLBACK_SUMMARY}
                        /\ fail # "no_insights"
        w2 == UpsertSummary(w1, keeper.key,
                            Doc("completed", -1, -1, session_summary),
                            fail \notin {"record", "record_once"})
    IN  IF w1.exc # "none" THEN w1
        ELSE IF w2.exc # "none" THEN w2
        ELSE IF ~has_insights THEN [w2 EXCEPT !.orch[o].ended = TRUE]
        ELSE IF fail = "insights" THEN Raise(w2, "Exception")
        ELSE [w2 EXCEPT !.insights = TRUE, !.orch[o].ended = TRUE]

-----------------------------------------------------------------------------
(* memory/session_pool.py *)

\* What the pool forgets when an entry leaves the key map
Forget(w, k, st, evicted) ==
    [w EXCEPT !.served[k] = [conc |-> FALSE, n |-> 0, ids |-> {}],
              !.evictedSum[k] =
                  IF evicted /\ st.dirty THEN w.orch[st.orch].cumulative_summary ELSE @]

\* SessionPool._persist_session
PersistSession(w, k, st, ok) ==
    LET o == st.orch
        w1 == UpdateSessionMetadata(Ev(w, "persist", k), o,
                  w.orch[o].cumulative_summary, Len(w.orch[o].turn_buffer), ok)
    IN  IF InPool(w1, k) /\ w1.state[k].orch = o
        THEN [w1 EXCEPT !.state[k].dirty = FALSE]
        ELSE w1

\* _evict_if_needed, were popitem to take the entry inserted last
EvictIfNeededNewest(w, ok) ==
    IF Len(w.sessions) <= max_sessions
    THEN w
    ELSE LET key == w.sessions[Len(w.sessions)]
             session_state == w.state[key]
             w1 == EvDel([w EXCEPT !.sessions = SubSeq(@, 1, Len(@) - 1),
                                   !.state[key] = NoState],
                         key, session_state.dirty, "capacity")
             w2 == Forget(w1, key, session_state, TRUE)
         IN  IF session_state.dirty THEN PersistSession(w2, key, session_state, ok)
             ELSE w2

\* SessionPool._evict_if_needed
EvictIfNeeded(w, ok) ==
    IF Len(w.sessions) <= max_sessions
    THEN w
    ELSE LET key == Head(w.sessions)
             session_state == w.state[key]
             w1 == EvDel([w EXCEPT !.sessions = Tail(@), !.state[key] = NoState],
                         key, session_state.dirty, "capacity")
             w2 == Forget(w1, key, session_state, TRUE)
         IN  IF session_state.dirty THEN PersistSession(w2, key, session_state, ok)
             ELSE w2

\* get_or_create's hot path, were it to leave the entry where it is in the
\* OrderedDict
GetOrCreateHitInPlace(w, k) ==
    [w EXCEPT !.state[k].last_accessed = 0,
              !.path = "hit",
              !.ret = w.state[k].orch]

\* SessionPool.get_or_create, hot path
GetOrCreateHit(w, k) ==
    [w EXCEPT !.state[k].last_accessed = 0,
              !.sessions = Append(Without(@, k), k),
              !.path = "hit",
              !.ret = w.state[k].orch]

\* get_or_create's cold path, were it not to catch restore_session's ValueError
GetOrCreateConstructNoCatch(w, k, restore, ok) ==
    LET o == w.nextOrch
        w1 == Ev([w EXCEPT !.orch[o] = NewKeeper(k), !.nextOrch = o + 1, !.ret = o],
                 "construct", k)
    IN  IF restore THEN RestoreSession(w1, o) ELSE InitializeSession(w1, o, ok)

\* SessionPool.get_or_create, cold path up to the end of restore / initialize
GetOrCreateConstruct(w, k, restore, ok) ==
    LET o == w.nextOrch
        w1 == Ev([w EXCEPT !.orch[o] = NewKeeper(k), !.nextOrch = o + 1, !.ret = o],
                 "construct", k)
        w2 == RestoreSession(w1, o)
    IN  IF restore
        THEN IF w2.exc = "ValueError"
             THEN InitializeSession(Swallow(w2), o, ok)
             ELSE w2
        ELSE InitializeSession(w1, o, ok)

\* get_or_create's insertion, were it not to call _evict_if_needed
GetOrCreateInsertOnly(w, k, o, ok) ==
    [w EXCEPT !.state[k] = SessionState(o, 0),
              !.sessions = Append(Without(@, k), k),
              !.ret = o]

\* SessionPool.get_or_create, cold path from "Add to pool" on
GetOrCreateInsert(w, k, o, ok) ==
    EvictIfNeeded(
        [w EXCEPT !.state[k] = SessionState(o, 0),
                  !.sessions = Append(Without(@, k), k),
                  !.ret = o], ok)

\* remove, were it to persist a dirty entry whatever its persist argument
RemovePersisting(w, k, persist, ok) ==
    IF ~InPool(w, k)
    THEN w
    ELSE LET session_state == w.state[k]
             w1 == IF session_state.dirty
                   THEN PersistSession(w, k, session_state, ok)
                   ELSE w
         IN  Forget(EvDel([w1 EXCEPT !.sessions = Without(@, k), !.state[k] = NoState],
                          k, session_state.dirty, "remove"),
                    k, session_state, FALSE)

\* SessionPool.remove
Remove(w, k, persist, ok) ==
    IF ~InPool(w, k)
    THEN w
    ELSE LET session_state == w.state[k]
             w1 == IF persist /\ session_state.dirty
                   THEN PersistSession(w, k, session_state, ok)
                   ELSE w
         IN  Forget(EvDel([w1 EXCEPT !.sessions = Without(@, k), !.state[k] = NoState],
                          k, session_state.dirty, "remove"),
                    k, session_state, FALSE)

\* The scan, were it to take the entries whose age has reached the TTL
StaleKeysAtTtl(w) ==
    SelectSeq(w.sessions, LAMBDA k : 0 - w.state[k].last_accessed >= SESSION_TTL)

\* SessionPool.evict_stale_sessions, the scan: the keys whose age exceeds the TTL
StaleKeys(w) ==
    SelectSeq(w.sessions, LAMBDA k : 0 - w.state[k].last_accessed > SESSION_TTL)

\* SessionPool.evict_stale_sessions, the eviction loop over to_evict
RECURSIVE EvictKeys(_, _, _)
EvictKeys(w, to_evict, ok) ==
    IF to_evict = <<>> \/ w.exc # "none"
    THEN w
    ELSE LET key == Head(to_evict)
         IN  IF ~InPool(w, key)
             THEN Raise(w, "KeyError")
             ELSE LET session_state == w.state[key]
                      w1 == IF session_state.dirty
                            THEN PersistSession(w, key, session_state, ok)
                            ELSE w
                      w2 == EvDel([w1 EXCEPT !.sessions = Without(@, key),
                                             !.state[key] = NoState],
                                  key, session_state.dirty, "ttl")
                  IN  EvictKeys(Forget(w2, key, session_state, TRUE), Tail(to_evict), ok)

\* SessionPool.shutdown, the gather of _persist_session over the dirty entries;
\* failing holds the keys whose write fails
RECURSIVE PersistDirty(_, _, _)
PersistDirty(w, keys, failing) ==
    IF keys = <<>>
    THEN w
    ELSE LET k == Head(keys)
             w1 == IF w.state[k].dirty
                   THEN PersistSession(w, k, w.state[k], k \notin failing)
                   ELSE w
         IN  PersistDirty(w1, Tail(keys), failing)

\* SessionPool.shutdown, self.sessions.clear(); before is the pool on entry
RECURSIVE ClearSessions(_, _, _)
ClearSessions(w, keys, before) ==
    IF keys = <<>>
    THEN w
    ELSE LET k == Head(keys)
             w1 == EvDel([w EXCEPT !.sessions = Without(@, k), !.state[k] = NoState],
                         k, before[k].dirty, "shutdown")
         IN  ClearSessions(Forget(w1, k, before[k], FALSE), Tail(keys), before)

\* SessionPool.shutdown
Shutdown(w, failing) ==
    ClearSessions(PersistDirty(w, w.sessions, failing), w.sessions, w.state)

-----------------------------------------------------------------------------
(* server/main.py: the request handlers, as the event loop runs them *)

\* Constructing, were the awaits of the miss path to hand the loop to other
\* requests: the loop would not wait for the handler
ConstructingYields == FALSE

\* get_or_create is between building an orchestrator and adding it to the pool.
\* What it awaits there (restore_session, initialize_session) calls only blocking
\* clients, so the loop runs nothing else until the handler returns.
Constructing == inflight # {}

\* Sweeping, were the awaits of the eviction loop to hand the loop to requests
SweepingYields == FALSE

\* evict_stale_sessions is between its scan and its eviction loop.  What it
\* awaits there (_persist_session) calls only blocking clients.
Sweeping == sweep.pc # "idle"

\* The loop is free to start a handler, a scheduled task or the sweep
LoopFree == ~Constructing /\ ~Sweeping

\* Were the await inside maybe_prune to give up the loop
CompactingYields == FALSE

\* maybe_prune awaits a coroutine that calls the model client synchronously:
\* the loop runs nothing else until maybe_prune has returned
Compacting == pruning # {}

\* An orchestrator stays on the heap while the pool, a handler, a task or a
\* library caller holds it
Held(w, fl, o) ==
    \/ \E k \in Keys : InPool(w, k) /\ w.state[k].orch = o
    \/ \E c \in fl : c.orch = o
    \/ \E i \in DOMAIN w.tasks : w.tasks[i].orch = o
    \/ o \in client
    \/ o = w.memory.orchestrator

Commit(w, fl) ==
    /\ sessions' = w.sessions
    /\ state' = w.state
    /\ orch' = [o \in OrchIds |-> IF Held(w, fl, o) THEN w.orch[o] ELSE FreeSlot]
    /\ nextOrch' = w.nextOrch
    /\ summaries' = w.summaries
    /\ insights' = w.insights
    /\ interactions' = w.interactions
    /\ tasks' = w.tasks
    /\ evictedSum' = w.evictedSum
    /\ served' = w.served
    /\ memory' = w.memory
    /\ provider' = w.provider
    /\ trace' = IF \E i \in DOMAIN w.trace : w.trace[i].ev = "del" THEN w.trace ELSE <<>>
    /\ raised' = w.exc
    /\ inflight' = fl

\* What get_or_create handed to a queued caller, noted per key
Serve(w, k, o) ==
    [w EXCEPT !.served[k].ids = @ \cup {o},
              !.served[k].n = IF @ < 2 THEN @ + 1 ELSE @]

\* mark_dirty, were store_turn not to call it
MarkDirtySkipped(w, k, o) == w

\* session_state.mark_dirty() on the SessionState the handler holds
MarkDirty(w, k, o) ==
    IF InPool(w, k) /\ w.state[k].orch = o
    THEN [w EXCEPT !.state[k].dirty = TRUE]
    ELSE w

\* store_turn, after get_or_create
StoreTurnBody(w, k, o, content, llm) ==
    LET w1 == ProcessTurn(w, o, Turn("user", nturns[k] + 1, content),
                          Turn("assistant", nturns[k] + 2, "text"), llm)
    IN  IF w1.exc # "none" THEN w1 ELSE MarkDirty(w1, k, o)

\* end_session (the handler), after get_or_create
EndSessionBody(w, k, o, fail) ==
    LET w1 == EndSessionOrch(w, o, fail)
    IN  IF w1.exc # "none" THEN w1 ELSE Remove(w1, k, FALSE, TRUE)

\* A handler, from the return of get_or_create to its own return
Body(w, op, k, o, content, llm, fail) ==
    CASE op = "store" -> StoreTurnBody(w, k, o, content, llm)
      [] op = "end" -> EndSessionBody(w, k, o, fail)
      [] op = "queued" -> Serve(w, k, o)
      [] OTHER -> w

\* The handler's inputs that its kind does not take are fixed
Inputs(op, content, llm, fail) ==
    /\ (op # "store" => content = "text" /\ llm = "ok")
    /\ (op # "end" => fail = "none")

\* The bookkeeping of a handler that has run to its end
Done(w, op, k) ==
    /\ nturns' = [nturns EXCEPT ![k] = IF op = "store" THEN @ + 2 ELSE @]
    /\ accepted' = [accepted EXCEPT ![k] =
           IF op = "store" /\ w.exc = "none"
           THEN @ \cup {nturns[k] + 1, nturns[k] + 2} ELSE @]
    /\ endedKeys' = IF op = "end" /\ w.exc = "none" THEN endedKeys \cup {k}
                    ELSE endedKeys
    /\ ready' = [ready EXCEPT ![k] = IF op = "queued" THEN @ - 1 ELSE @]
    /\ UNCHANGED <<K, max_sessions, background_tasks_running, ends, cm, pruning, sweep, client, called>>

\* get_or_create finds the key: the handler runs from start to end
Hit(op, k, content, llm, fail) ==
    /\ LoopFree
    /\ k \in Range(sessions)
    /\ Inputs(op, content, llm, fail)
    /\ LET w0 == GetOrCreateHit(World, k)
           w == Body(w0, op, k, w0.ret, content, llm, fail)
       IN  Commit(w, {}) /\ Done(w, op, k)

\* get_or_create misses: the handler runs up to the end of restore / initialize
Begin(op, k, restore) ==
    /\ LoopFree
    /\ k \notin Range(sessions)
    /\ nextOrch <= MaxOrch
    /\ LET w == GetOrCreateConstruct(World, k, restore, TRUE)
           c == [op |-> op, key |-> k, orch |-> w.ret, path |-> w.path,
                 prevEvicted |-> evictedSum[k]]
       IN  Commit([w EXCEPT !.evictedSum[k] = -1], inflight \cup {c})
    /\ UNCHANGED <<K, max_sessions, background_tasks_running, ends, cm, pruning, sweep, ready, nturns, accepted, endedKeys, client, called>>

\* ... and runs on from "Add to pool" to its end
Finish(c, content, llm, fail, ok) ==
    /\ c \in inflight
    /\ Inputs(c.op, content, llm, fail)
    /\ LET w0 == GetOrCreateInsert(World, c.key, c.orch, ok)
           w == Body(w0, c.op, c.key, c.orch, content, llm, fail)
       IN  Commit(w, inflight \ {c}) /\ Done(w, c.op, c.key)

\* start_session with restore = True
StartSession(k) ==
    \/ Hit("start", k, "text", "ok", "none")
    \/ Begin("start", k, TRUE)

\* store_turn
StoreTurn(k, content, llm) ==
    /\ nturns[k] < 2 * MaxCalls
    /\ \/ Hit("store", k, content, llm, "none")
       \/ Begin("store", k, TRUE)

\* get_context
GetContext(k) ==
    \/ Hit("context", k, "text", "ok", "none")
    \/ Begin("context", k, TRUE)

\* end_session
EndSession(k, fail) ==
    \/ Hit("end", k, "text", "ok", fail)
    \/ fail = "none" /\ Begin("end", k, FALSE)

\* A start_session request (restore = True) reaches the loop and waits its turn
Submit(k) ==
    /\ LoopFree
    /\ ready[k] < MaxReady
    /\ ready' = [ready EXCEPT ![k] = @ + 1]
    /\ served' = [served EXCEPT ![k].conc =
                     @ \/ (ready[k] >= 1 /\ k \notin Range(sessions))]
    /\ UNCHANGED <<K, max_sessions, background_tasks_running, memory, provider, ends, cm, pruning, sessions, state, orch, nextOrch, summaries, insights,
          interactions,
                   tasks, inflight, sweep, nturns, accepted, endedKeys, evictedSum,
                   client, called, raised, trace>>

\* The loop runs a waiting start_session request
RunQueued(k) ==
    /\ ready[k] > 0
    /\ \/ Hit("queued", k, "text", "ok", "none")
       \/ Begin("queued", k, TRUE)

\* background_eviction_loop wakes up: evict_stale_sessions scans the pool
SweepSelect ==
    /\ LoopFree
    /\ sweep' = [pc |-> "evict", to_evict |-> StaleKeys(World)]
    /\ UNCHANGED <<K, max_sessions, background_tasks_running, memory, provider, ends, cm, pruning, sessions, state, orch, nextOrch, summaries, insights,
          interactions,
                   tasks, inflight, ready, nturns, accepted, endedKeys, evictedSum,
                   served, client, called, raised, trace>>

\* evict_stale_sessions evicts what it selected; whatever it raises the loop
\* logs, and it sleeps again or, the flag cleared, leaves
SweepEvict(ok) ==
    /\ sweep.pc = "evict"
    /\ Commit(EvictKeys(World, sweep.to_evict, ok), inflight)
    /\ sweep' = IF background_tasks_running THEN IdleSweep ELSE StoppedSweep
    /\ UNCHANGED <<K, max_sessions, background_tasks_running, ends, cm, pruning, ready, nturns, accepted, endedKeys, client, called>>

\* The loop runs the oldest coroutine that create_task scheduled
RunTask(ok) ==
    /\ LoopFree
    /\ tasks # <<>>
    /\ LET t == Head(tasks)
           w0 == [World EXCEPT !.tasks = Tail(tasks)]
           w == IF t.kind = "summary"
                THEN UpdateSessionSummaryAsync(w0, t.orch, ok)
                ELSE ProcessInteractionAsync(w0, t.orch, t.turns, ok)
       IN  Commit(w, inflight)
    /\ UNCHANGED <<K, max_sessions, background_tasks_running, ends, cm, pruning, sweep, ready, nturns, accepted, endedKeys, client, called>>

\* A tick of the clock: every entry is one tick older
Tick ==
    /\ LoopFree
    /\ \E k \in Range(sessions) : state[k].last_accessed > 0 - (SESSION_TTL + 1)
    /\ state' = [k \in Keys |->
                    IF k \in Range(sessions) /\ state[k].last_accessed > 0 - (SESSION_TTL + 1)
                    THEN [state[k] EXCEPT !.last_accessed = @ - 1]
                    ELSE state[k]]
    /\ UNCHANGED <<K, max_sessions, background_tasks_running, memory, provider, ends, cm, pruning, sessions, orch, nextOrch, summaries, insights,
          interactions, tasks,
                   inflight, sweep, ready, nturns, accepted, endedKeys, evictedSum,
                   served, client, called, raised, trace>>

-----------------------------------------------------------------------------

Init ==
    /\ K = ServerK
    /\ max_sessions = MAX_SESSIONS
    /\ sessions = <<>>
    /\ state = [k \in Keys |-> NoState]
    /\ orch = [o \in OrchIds |-> FreeSlot]
    /\ nextOrch = 1
    /\ summaries = [k \in Keys |-> NoDoc]
    /\ insights = FALSE
    /\ interactions = [k \in Keys |-> <<>>]
    /\ tasks = <<>>
    /\ inflight = {}
    /\ pruning = {}
    /\ memory = NoMemory
    /\ provider = NoProvider
    /\ ends = [k \in Keys |-> 0]
    /\ cm = "out"
    /\ sweep = IdleSweep
    /\ background_tasks_running = TRUE
    /\ ready = [k \in Keys |-> 0]
    /\ nturns = [k \in Keys |-> 0]
    /\ accepted = [k \in Keys |-> {}]
    /\ endedKeys = {}
    /\ evictedSum = [k \in Keys |-> -1]
    /\ served = [k \in Keys |-> [conc |-> FALSE, n |-> 0, ids |-> {}]]
    /\ client = {}
    /\ called = "none"
    /\ raised = "none"
    /\ trace = <<>>

LlmOutcomes == {"ok", "empty", "raise"}

EndFailures ==
    {"none", "metadata", "flush", "analysis", "record", "record_once", "insights",
     "no_insights"}

Next ==
    \/ \E k \in ServerKeys : StartSession(k)
    \/ \E k \in Talkers, llm \in LlmOutcomes : StoreTurn(k, "text", llm)
    \/ \E k \in ServerKeys : GetContext(k)
    \/ \E k \in Talkers, fail \in EndFailures : EndSession(k, fail)
    \/ \E c \in inflight, llm \in LlmOutcomes, fail \in EndFailures, ok \in BOOLEAN :
           Finish(c, "text", llm, fail, ok)
    \/ SweepSelect
    \/ \E ok \in BOOLEAN : SweepEvict(ok)
    \/ \E ok \in BOOLEAN : RunTask(ok)
    \/ Tick

Spec == Init /\ [][Next]_vars

-----------------------------------------------------------------------------
(* The pool with room for more than one session, three sessions asking for  *)
(* it, and the calls of its interface that the handlers of Spec do not make *)

\* await session_pool.remove(user_id, session_id, persist)
RemoveCall(k, persist, ok) ==
    /\ LoopFree
    /\ Commit(Remove(World, k, persist, ok), inflight)
    /\ UNCHANGED <<K, max_sessions, background_tasks_running, ends, cm, pruning, sweep, ready, nturns, accepted, endedKeys, client,
                   called>>

\* lifespan after the yield: the sweeper has stopped, the tasks the loop held
\* have run, and the pool shuts down
ShutdownCall(failing) ==
    /\ LoopFree
    /\ tasks = <<>>
    /\ Commit(Shutdown(World, failing), inflight)
    /\ sweep' = StoppedSweep
    /\ background_tasks_running' = FALSE
    /\ UNCHANGED <<K, max_sessions, ends, cm, pruning, ready, nturns, accepted, endedKeys, client, called>>

\* The first store_turn of a session: its two turns stay below K
FirstStoreTurn(k) == nturns[k] = 0 /\ StoreTurn(k, "text", "ok")

PoolInit ==
    /\ K = ServerK
    /\ max_sessions \in 1..MaxPoolSessions
    /\ sessions = <<>>
    /\ state = [k \in Keys |-> NoState]
    /\ orch = [o \in OrchIds |-> FreeSlot]
    /\ nextOrch = 1
    /\ summaries = [k \in Keys |-> NoDoc]
    /\ insights = FALSE
    /\ interactions = [k \in Keys |-> <<>>]
    /\ tasks = <<>>
    /\ inflight = {}
    /\ pruning = {}
    /\ memory = NoMemory
    /\ provider = NoProvider
    /\ ends = [k \in Keys |-> 0]
    /\ cm = "out"
    /\ sweep = IdleSweep
    /\ background_tasks_running = TRUE
    /\ ready = [k \in Keys |-> 0]
    /\ nturns = [k \in Keys |-> 0]
    /\ accepted = [k \in Keys |-> {}]
    /\ endedKeys = {}
    /\ evictedSum = [k \in Keys |-> -1]
    /\ served = [k \in Keys |-> [conc |-> FALSE, n |-> 0, ids |-> {}]]
    /\ client = {}
    /\ called = "none"
    /\ raised = "none"
    /\ trace = <<>>

PoolNext ==
    \/ \E k \in Keys : StartSession(k)
    \/ \E k \in Keys : FirstStoreTurn(k)
    \/ \E c \in inflight, ok \in BOOLEAN : Finish(c, "text", "ok", "none", ok)
    \/ \E k \in Keys, persist \in BOOLEAN, ok \in BOOLEAN : RemoveCall(k, persist, ok)
    \/ SweepSelect
    \/ \E ok \in BOOLEAN : SweepEvict(ok)
    \/ Tick
    \/ \E failing \in SUBSET Range(sessions) : ShutdownCall(failing)

PoolSpec == PoolInit /\ [][PoolNext]_vars

\* Requests for one session that arrive together and wait for the loop
LoopNext ==
    \/ \E k \in ServerKeys : Submit(k)
    \/ \E k \in ServerKeys : RunQueued(k)
    \/ \E c \in inflight, ok \in BOOLEAN : Finish(c, "text", "ok", "none", ok)
    \/ SweepSelect
    \/ \E ok \in BOOLEAN : SweepEvict(ok)
    \/ Tick

LoopSpec == Init /\ [][LoopNext]_vars

-----------------------------------------------------------------------------
(* memory/cosmos_agent_memory.py and memory/cosmos_memory_provider_embedded.py *)

\* config.auto_manage_sessions and the provider's config.use_thread_as_session,
\* at their defaults
AUTO_MANAGE_SESSIONS == TRUE

USE_THREAD_AS_SESSION == TRUE

\* str(uuid.uuid4()): drawn once per memory, when it has no session_id yet
Uuid == MaxKeys

\* Session ids a caller passes, thread ids the agent framework passes
MaxThreads == 1

ThreadIds == 1..MaxThreads

\* CosmosAgentMemory._ensure_orchestrator
EnsureOrchestrator(w) ==
    LET session_id == IF w.memory.session_id = 0 THEN Uuid ELSE w.memory.session_id
        o == w.nextOrch
        w1 == [w EXCEPT !.memory.session_id = session_id]
    IN  IF w.memory.orchestrator = 0 \/ w.orch[w.memory.orchestrator].key # session_id
        THEN [w1 EXCEPT !.orch[o] = NewKeeper(session_id), !.nextOrch = o + 1,
                        !.memory.orchestrator = o]
        ELSE w1

\* CosmosAgentMemory.start_session; session_id 0 is None
MemStartSession(w, session_id, restore, ok) ==
    LET w1 == IF session_id # 0 THEN [w EXCEPT !.memory.session_id = session_id] ELSE w
        w2 == EnsureOrchestrator(w1)
        o == w2.memory.orchestrator
        w3 == IF restore /\ session_id # 0 THEN RestoreSession(w2, o)
              ELSE InitializeSession(w2, o, ok)
    IN  IF w3.exc # "none" THEN w3
        ELSE [w3 EXCEPT !.memory.session_started = TRUE]

\* add_turn without its guard: what is left is the call on self._orchestrator
MemAddTurnUnguarded(w, user_turn, agent_turn, llm) ==
    IF w.memory.orchestrator = 0 THEN Raise(w, "AttributeError")
    ELSE ProcessTurn(w, w.memory.orchestrator, user_turn, agent_turn, llm)

\* CosmosAgentMemory.add_turn
MemAddTurn(w, user_turn, agent_turn, llm) ==
    IF ~w.memory.session_started THEN Raise(w, "RuntimeError")
    ELSE ProcessTurn(w, w.memory.orchestrator, user_turn, agent_turn, llm)

\* CosmosAgentMemory.end_session; the invocation of the orchestrator's
\* end_session is noted in the trace
MemEndSession(w, fail) ==
    IF ~w.memory.session_started THEN w
    ELSE LET o == w.memory.orchestrator
             w1 == EndSessionOrch(Ev(w, "end_session", w.orch[o].key), o, fail)
         IN  IF w1.exc # "none" THEN w1
             ELSE [w1 EXCEPT !.memory.session_started = FALSE]

\* CosmosAgentMemory.__aenter__
MemAenter(w, ok) ==
    IF ~w.memory.session_started THEN MemStartSession(w, 0, FALSE, ok) ELSE w

\* CosmosAgentMemory.__aexit__
MemAexit(w, fail) ==
    IF w.memory.session_started /\ AUTO_MANAGE_SESSIONS THEN MemEndSession(w, fail)
    ELSE w

\* CosmosMemoryProvider.__aenter__, over a memory of its own
ProvAenter(w, ok) == MemAenter(w, ok)

\* CosmosMemoryProvider.thread_created
ProvThreadCreated(w, thread_id, ok) ==
    IF ~AUTO_MANAGE_SESSIONS THEN w
    ELSE LET session_id == IF USE_THREAD_AS_SESSION THEN thread_id ELSE 0
             w1 == MemStartSession(w, session_id, FALSE, ok)
         IN  IF w1.exc # "none" THEN Raise(w1, "ServiceInitializationError")
             ELSE [w1 EXCEPT !.provider.session_active = TRUE]

\* CosmosMemoryProvider.__aexit__, over a memory of its own: fail is what goes
\* wrong in the provider's end_session, fail_again in the memory's
ProvAexit(w, fail, fail_again) ==
    LET w1 == MemEndSession(w, fail)
        w2 == IF ~(w.provider.session_active /\ AUTO_MANAGE_SESSIONS) THEN w
              ELSE IF w1.exc # "none" THEN Swallow(w1)
              ELSE [w1 EXCEPT !.provider.session_active = FALSE]
    IN  MemAexit(w2, fail_again)

-----------------------------------------------------------------------------
(* A library caller that builds one orchestrator and drives it itself, as    *)
(* demo/interactive_demo_live.py and CosmosAgentMemory do.  OrchSpec calls   *)
(* the orchestrator, KeeperSpec calls its memory keeper.                     *)

TheOrch == 1

LibInit ==
    /\ K \in 1..MaxK
    /\ max_sessions = MAX_SESSIONS
    /\ sessions = <<>>
    /\ state = [k \in Keys |-> NoState]
    /\ orch = [o \in OrchIds |-> IF o = TheOrch THEN NewKeeper(1) ELSE FreeSlot]
    /\ nextOrch = TheOrch + 1
    /\ summaries = [k \in Keys |-> NoDoc]
    /\ insights = FALSE
    /\ interactions = [k \in Keys |-> <<>>]
    /\ tasks = <<>>
    /\ inflight = {}
    /\ pruning = {}
    /\ memory = NoMemory
    /\ provider = NoProvider
    /\ ends = [k \in Keys |-> 0]
    /\ cm = "out"
    /\ sweep = IdleSweep
    /\ background_tasks_running = FALSE
    /\ ready = [k \in Keys |-> 0]
    /\ nturns = [k \in Keys |-> 0]
    /\ accepted = [k \in Keys |-> {}]
    /\ endedKeys = {}
    /\ evictedSum = [k \in Keys |-> -1]
    /\ served = [k \in Keys |-> [conc |-> FALSE, n |-> 0, ids |-> {}]]
    /\ client = {TheOrch}
    /\ called = "none"
    /\ raised = "none"
    /\ trace = <<>>

\* The caller's call has returned (or raised)
Called(w, name, added) ==
    /\ Commit(w, {})
    /\ called' = name
    /\ nturns' = [nturns EXCEPT ![1] = @ + added]
    /\ UNCHANGED <<K, max_sessions, background_tasks_running, ends, cm, pruning, sweep, ready, accepted, endedKeys, client>>

\* await orchestrator.initialize_session()
LibInitialize == Called(InitializeSession(World, TheOrch, TRUE), "initialize_session", 0)

\* await orchestrator.restore_session(session_id)
LibRestore ==
    /\ Len(interactions[1]) < MaxChunks
    /\ Called(RestoreSession(World, TheOrch), "restore_session", 0)

\* await orchestrator.process_turn(user_message, agent_message)
LibProcessTurn(content, llm) ==
    /\ nturns[1] + 2 <= MaxLibTurns
    /\ Called(ProcessTurn(World, TheOrch, Turn("user", nturns[1] + 1, content),
                          Turn("assistant", nturns[1] + 2, "text"), llm),
              "process_turn", 2)

\* await orchestrator.end_session()
LibEndSession(fail) == Called(EndSessionOrch(World, TheOrch, fail), "end_session", 0)

\* memory_keeper.add_turn(role, content)
LibAddTurn(role, content) ==
    /\ nturns[1] + 1 <= MaxLibTurns
    /\ Called(AddTurn(World, TheOrch, Turn(role, nturns[1] + 1, content)), "add_turn", 1)

\* await memory_keeper.maybe_prune()
LibMaybePrune(llm) == Called(MaybePrune(World, TheOrch, llm), "maybe_prune", 0)

OrchNext ==
    \/ LibInitialize
    \/ LibRestore
    \/ \E content \in Contents, llm \in LlmOutcomes : LibProcessTurn(content, llm)
    \/ \E fail \in EndFailures : LibEndSession(fail)
    \/ \E ok \in BOOLEAN : RunTask(ok)

OrchSpec == LibInit /\ [][OrchNext]_vars

KeeperNext ==
    \/ \E role \in {"user", "assistant"} : LibAddTurn(role, "text")
    \/ \E llm \in LlmOutcomes : LibMaybePrune(llm)
    \/ \E ok \in BOOLEAN : RunTask(ok)

KeeperSpec == LibInit /\ [][KeeperNext]_vars

-----------------------------------------------------------------------------
(* store_turn requests of one session that arrive together: each runs        *)
(* process_turn on the session's orchestrator, and the loop takes the next    *)
(* when the one before is done or gives the loop up.                          *)

\* process_turn, to the await inside maybe_prune or, below K, to its return
TurnBegin(content) ==
    /\ ~Compacting
    /\ nturns[1] + 2 <= MaxLibTurns
    /\ LET w == AddTurn(AddTurn(World, TheOrch, Turn("user", nturns[1] + 1, content)),
                        TheOrch, Turn("assistant", nturns[1] + 2, "text"))
       IN  /\ Commit(w, {})
           /\ pruning' = IF BelowK(w.orch[TheOrch].turn_buffer) THEN pruning
                         ELSE pruning \cup {MaybePruneSelect(w, TheOrch, nturns[1] + 1)}
    /\ called' = "process_turn"
    /\ nturns' = [nturns EXCEPT ![1] = @ + 2]
    /\ UNCHANGED <<K, max_sessions, background_tasks_running, ends, cm, sweep, ready, accepted, endedKeys, client>>

\* process_turn, from the return of _update_cumulative_summary to its own
TurnResume(p, llm) ==
    /\ Commit(MaybePruneResume(World, p, llm), {})
    /\ pruning' = pruning \ {p}
    /\ called' = "process_turn"
    /\ UNCHANGED <<K, max_sessions, background_tasks_running, ends, cm, sweep, ready, nturns, accepted, endedKeys, client>>

\* A background task runs when the loop is free
TurnRunTask(ok) == ~Compacting /\ RunTask(ok)

TurnNext ==
    \/ \E content \in Contents : TurnBegin(content)
    \/ \E p \in pruning, llm \in LlmOutcomes : TurnResume(p, llm)
    \/ \E ok \in BOOLEAN : TurnRunTask(ok)

TurnSpec == LibInit /\ [][TurnNext]_vars

-----------------------------------------------------------------------------
(* A caller of the library's memory, alone or wrapped in a provider *)
(* (MemorySpec)                                                      *)

\* Turns the caller hands to add_turn, per session id: fewer than the buffer
\* holds, the compaction of a full buffer is TurnSpec's and KeeperSpec's
MaxMemTurns == 2

MemInit ==
    /\ K = MaxK
    /\ max_sessions = MAX_SESSIONS
    /\ sessions = <<>>
    /\ state = [k \in Keys |-> NoState]
    /\ orch = [o \in OrchIds |-> FreeSlot]
    /\ nextOrch = 1
    /\ summaries = [k \in Keys |-> NoDoc]
    /\ insights = FALSE
    /\ interactions = [k \in Keys |-> <<>>]
    /\ tasks = <<>>
    /\ inflight = {}
    /\ pruning = {}
    /\ memory = NoMemory
    /\ provider \in {NoProvider, [NoProvider EXCEPT !.used = TRUE]}
    /\ ends = [k \in Keys |-> 0]
    /\ cm = "out"
    /\ sweep = IdleSweep
    /\ background_tasks_running = FALSE
    /\ ready = [k \in Keys |-> 0]
    /\ nturns = [k \in Keys |-> 0]
    /\ accepted = [k \in Keys |-> {}]
    /\ endedKeys = {}
    /\ evictedSum = [k \in Keys |-> -1]
    /\ served = [k \in Keys |-> [conc |-> FALSE, n |-> 0, ids |-> {}]]
    /\ client = {}
    /\ called = "none"
    /\ raised = "none"
    /\ trace = <<>>

\* Times the call invoked the orchestrator's end_session for key k
Invocations(t, k) ==
    Cardinality({i \in DOMAIN t : t[i].ev = "end_session" /\ t[i].key = k})

\* The caller's call has returned (or raised)
MemCalled(w, name, position) ==
    /\ Commit(w, {})
    /\ called' = name
    /\ cm' = position
    /\ ends' = [k \in Keys |-> Invocations(w.trace, k)]
    /\ UNCHANGED <<K, max_sessions, background_tasks_running, pruning, sweep, ready, accepted, endedKeys, client>>

\* async with memory: / async with provider: the block is entered
CmEnter(ok) ==
    /\ cm = "out"
    /\ nextOrch <= MaxOrch
    /\ LET w == IF provider.used THEN ProvAenter(World, ok) ELSE MemAenter(World, ok)
       IN  MemCalled(w, "__aenter__", IF w.exc = "none" THEN "in" ELSE "out")
    /\ UNCHANGED nturns

\* The block is left
CmExit(fail, fail_again) ==
    /\ cm = "in"
    /\ MemCalled(IF provider.used THEN ProvAexit(World, fail, fail_again)
                 ELSE MemAexit(World, fail),
                 "__aexit__", "exited")
    /\ UNCHANGED nturns

\* await provider.thread_created(thread_id)
CmThreadCreated(thread_id, ok) ==
    /\ provider.used
    /\ cm = "in"
    /\ nextOrch <= MaxOrch
    /\ MemCalled(ProvThreadCreated(World, thread_id, ok), "thread_created", cm)
    /\ UNCHANGED nturns

\* await memory.start_session(session_id, restore)
CmStartSession(session_id, restore, ok) ==
    /\ ~provider.used
    /\ nextOrch <= MaxOrch
    /\ restore /\ session_id # 0 => Len(interactions[session_id]) < MaxChunks
    /\ MemCalled(MemStartSession(World, session_id, restore, ok), "start_session", cm)
    /\ UNCHANGED nturns

\* await memory.add_turn(user_message, assistant_message)
CmAddTurn(content, llm) ==
    LET k == IF memory.session_id = 0 THEN Uuid ELSE memory.session_id
    IN  /\ nturns[k] + 2 <= MaxMemTurns
        /\ MemCalled(MemAddTurn(World, Turn("user", nturns[k] + 1, content),
                                Turn("assistant", nturns[k] + 2, "text"), llm),
                     "add_turn", cm)
        /\ nturns' = [nturns EXCEPT ![k] = @ + 2]

\* await memory.end_session()
CmEndSession(fail) ==
    /\ ~provider.used
    /\ MemCalled(MemEndSession(World, fail), "end_session", cm)
    /\ UNCHANGED nturns

MemNext ==
    \/ \E ok \in BOOLEAN : CmEnter(ok)
    \/ \E fail, fail_again \in EndFailures : CmExit(fail, fail_again)
    \/ \E thread_id \in ThreadIds, ok \in BOOLEAN : CmThreadCreated(thread_id, ok)
    \/ \E session_id \in {0} \cup ThreadIds, restore, ok \in BOOLEAN :
           CmStartSession(session_id, restore, ok)
    \/ \E content \in Contents, llm \in LlmOutcomes : CmAddTurn(content, llm)
    \/ \E fail \in EndFailures : CmEndSession(fail)

MemorySpec == MemInit /\ [][MemNext]_vars

-----------------------------------------------------------------------------
(* server/main.py: the endpoints that read the user's insights and summaries, *)
(* next to the handlers of Spec (ReadSpec)                                     *)

\* get_insights and get_summaries around their query: get_or_create of a
\* temporary session (restore=False), then remove(persist=False); ok is false
\* when initialize_session's write fails, persist_ok when the eviction's does
QueryWithTempSession(w, temp_session_id, ok, persist_ok) ==
    LET w1 == GetOrCreateConstruct(w, temp_session_id, FALSE, ok)
        w2 == GetOrCreateInsert(w1, temp_session_id, w1.ret, persist_ok)
    IN  IF w1.exc # "none" THEN w1
        ELSE Remove(w2, temp_session_id, FALSE, TRUE)

\* A read endpoint runs from start to end; its uuid4 is an id no session has
ReadEndpoint(name, ok, persist_ok) ==
    /\ LoopFree
    /\ nextOrch <= MaxOrch
    /\ summaries[Uuid] = NoDoc
    /\ Commit(QueryWithTempSession(World, Uuid, ok, persist_ok), inflight)
    /\ called' = name
    /\ UNCHANGED <<K, max_sessions, background_tasks_running, ends, cm, pruning, sweep, ready, nturns, accepted,
                   endedKeys, client>>

\* get_insights
GetInsights(ok, persist_ok) == ReadEndpoint("get_insights", ok, persist_ok)

\* get_summaries
GetSummaries(ok, persist_ok) == ReadEndpoint("get_summaries", ok, persist_ok)

ReadNext ==
    \/ Next
    \/ \E ok, persist_ok \in BOOLEAN : GetInsights(ok, persist_ok)
    \/ \E ok, persist_ok \in BOOLEAN : GetSummaries(ok, persist_ok)

ReadSpec == Init /\ [][ReadNext]_vars

-----------------------------------------------------------------------------
(* server/main.py: the lifespan of the server around its eviction loop *)
(* (LifeSpec)                                                          *)

\* lifespan resumes after its yield: the server has stopped serving, and the
\* flag tells the eviction loop to stop
SignalShutdown ==
    /\ LoopFree
    /\ background_tasks_running
    /\ background_tasks_running' = FALSE
    /\ UNCHANGED <<K, max_sessions, memory, provider, ends, cm, pruning, sessions, state,
                   orch, nextOrch, summaries, insights, interactions, tasks, inflight,
                   sweep, ready, nturns, accepted, endedKeys, evictedSum, served,
                   client, called, raised, trace>>

\* lifespan, from the return of `await eviction_task` on: the pool shuts down
LifespanShutdown(failing) ==
    /\ ~background_tasks_running
    /\ sweep.pc = "stopped"
    /\ called # "shutdown"
    /\ tasks = <<>>
    /\ Commit(Shutdown(World, failing), inflight)
    /\ called' = "shutdown"
    /\ UNCHANGED <<K, max_sessions, background_tasks_running, ends, cm, pruning, sweep, ready, nturns, accepted, endedKeys, client>>

\* The server serves requests until lifespan resumes
Serving == background_tasks_running

\* A pool with room for the two sessions that are asked for
LifeInit == PoolInit /\ max_sessions = MaxPoolSessions

LifeNext ==
    \/ Serving /\ \E k \in ServerKeys : StartSession(k)
    \/ Serving /\ \E k \in Talkers : FirstStoreTurn(k)
    \/ \E c \in inflight, ok \in BOOLEAN : Finish(c, "text", "ok", "none", ok)
    \/ SweepSelect
    \/ \E ok \in BOOLEAN : SweepEvict(ok)
    \/ Tick
    \/ SignalShutdown
    \/ \E failing \in SUBSET Range(sessions) : LifespanShutdown(failing)

\* The event loop runs what is ready in turn: a handler that has begun runs to
\* its end, the sleep of the eviction loop ends however many requests arrive,
\* the sweep it started finishes, and lifespan goes on once the loop's task is
\* done.  Nothing makes requests arrive, the clock tick or the server stop.
LifeFairness ==
    /\ WF_vars(\E c \in inflight, ok \in BOOLEAN : Finish(c, "text", "ok", "none", ok))
    /\ SF_vars(SweepSelect)
    /\ WF_vars(\E ok \in BOOLEAN : SweepEvict(ok))
    /\ WF_vars(\E failing \in SUBSET Range(sessions) : LifespanShutdown(failing))

LifeSpec == LifeInit /\ [][LifeNext]_vars /\ LifeFairness

-----------------------------------------------------------------------------
(* Properties of the library's memory and provider (MemorySpec) *)

\* C29: a call of CosmosAgentMemory.add_turn while no session is started
\* (before start_session, and again after end_session) raises RuntimeError,
\* calls nothing on the orchestrator and changes no state.
C29_AddTurnNeedsSession ==
    [][nturns' # nturns /\ ~memory.session_started =>
           /\ raised' = "RuntimeError"
           /\ UNCHANGED <<orch, nextOrch, summaries, insights, interactions, tasks,
                          memory, provider>>]_vars

\* add_turn has raised RuntimeError on a memory whose session was ended
C29_Witness ==
    /\ called = "add_turn"
    /\ raised = "RuntimeError"
    /\ memory.orchestrator # 0
    /\ orch[memory.orchestrator].ended
    /\ summaries[memory.session_id].status = "completed"

\* C30: leaving the `async with` block with a session started ends it exactly
\* once: the exit invokes the orchestrator's end_session for that session
\* once (not zero times, not twice, provider and memory both running their
\* exit handlers), and the session is no longer started nor active afterwards.
C30_ExitEndsSessionOnce ==
    [][cm = "in" /\ cm' = "exited" /\ memory.session_started =>
           /\ ends'[memory.session_id] = 1
           /\ ~memory'.session_started
           /\ ~provider'.session_active]_vars

-----------------------------------------------------------------------------
(* Properties of the server (Spec) *)

\* An eviction of a dirty entry, at position i of the handler's trace
DirtyEviction(i) ==
    /\ trace[i].ev = "del"
    /\ trace[i].dirty
    /\ trace[i].by \in {"ttl", "capacity"}

\* C1: when the TTL sweep or the capacity eviction removes a dirty entry from
\* the key map, the write of its session record has completed before the
\* removal.
C1_PersistBeforeRemoval ==
    \A i \in DOMAIN trace :
        DirtyEviction(i) =>
            \E j \in 1..(i - 1) : trace[j].ev = "write" /\ trace[j].key = trace[i].key

\* The ids of the turns a stored chunk holds
ChunkIds(content) == {content[i].id : i \in DOMAIN content}

\* C2: every turn a session that has not ended accepted is in the buffer of
\* the session's live pool entry, in a stored chunk, or in a chunk write that
\* is scheduled.
C2_NoTurnLost ==
    \A k \in Keys : \A t \in accepted[k] :
        k \notin endedKeys =>
            \/ k \in Range(sessions) /\ t \in TurnIds(orch[state[k].orch].turn_buffer)
            \/ \E i \in DOMAIN interactions[k] : t \in ChunkIds(interactions[k][i])
            \/ \E i \in DOMAIN tasks :
                   /\ tasks[i].kind = "chunk"
                   /\ orch[tasks[i].orch].key = k
                   /\ t \in TurnIds(tasks[i].turns)

\* C3: a get_or_create with restore=True on a session that was evicted dirty
\* with cumulative summary S takes the restore path, and the orchestrator it
\* builds has cumulative summary S.
C3_EvictRestoreRoundTrip ==
    \A c \in inflight :
        (c.op \in {"start", "store", "context", "queued"} /\ c.prevEvicted # -1) =>
            /\ c.path = "restore"
            /\ orch[c.orch].cumulative_summary = c.prevEvicted

\* C4: a session record with status completed is never written again.
C4_CompletedIsTerminal ==
    [][\A k \in Keys :
           (summaries[k].exists /\ summaries[k].status = "completed") =>
               summaries'[k] = summaries[k]]_vars

\* C5: once end_session has succeeded on a session, its record is never
\* active again and the pool holds no entry for it.
C5_EndedNeverReactivated ==
    \A k \in endedKeys :
        /\ summaries[k].status # "active"
        /\ k \notin Range(sessions)
        /\ \A c \in inflight : c.key = k => c.path # "restore"

\* C7: get_or_create is single-flight per key: the requests for one session
\* that wait together on a cold pool are all handed the same orchestrator, which
\* was built once.
C7_SingleFlight ==
    \A k \in Keys : Cardinality(served[k].ids) <= 1

\* Two requests waited together for a session the pool did not hold, and both
\* have been served
C7_Witness ==
    \E k \in Keys :
        served[k].conc /\ served[k].n = 2 /\ Cardinality(served[k].ids) = 1

-----------------------------------------------------------------------------
(* Properties of the orchestrator and the keeper (OrchSpec, KeeperSpec) *)

\* C6: process_turn on an orchestrator whose end_session has returned raises
\* InvalidState and leaves the turn buffer as it was.
C6_ProcessTurnAfterEndFails ==
    [][(orch[TheOrch].ended /\ nturns'[1] = nturns[1] + 2) =>
           /\ raised' = "InvalidState"
           /\ orch'[TheOrch].turn_buffer = orch[TheOrch].turn_buffer]_vars

\* C9: when process_turn, restore_session or end_session has returned without
\* raising, the turn buffer holds at most K turns, for every K >= 1.
C9_BufferWithinK ==
    (called \in {"process_turn", "restore_session", "end_session"} /\ raised = "none") =>
        Len(orch[TheOrch].turn_buffer) <= K

\* C10: when maybe_prune has returned without raising, the turn buffer holds
\* at most K turns, whatever add_turn calls came before it.
C10_KeeperBufferWithinK ==
    (called = "maybe_prune" /\ raised = "none") => Len(orch[TheOrch].turn_buffer) <= K

\* A step in which end_session returns (or raises) as it does when the call
\* named by fail fails
EndSessionReturned(fail) ==
    LET w == EndSessionOrch(World, TheOrch, fail)
    IN  /\ called' = "end_session"
        /\ orch' = w.orch
        /\ summaries' = w.summaries
        /\ insights' = w.insights
        /\ interactions' = w.interactions
        /\ raised' = w.exc

\* C22: an end_session during which a model call fails (the metadata of the
\* final flush, or the session analysis) raises nothing and leaves the
\* session record completed; when the analysis failed, with the fallback
\* summary.
C22_EndSessionSurvivesModelFailure ==
    [][\A fail \in {"metadata", "analysis"} :
           EndSessionReturned(fail) =>
               /\ raised' = "none"
               /\ summaries'[1].status = "completed"
               /\ (fail = "analysis" =>
                       summaries'[1].summary \in {FALLBACK_SUMMARY, BRIEF_SUMMARY})]_vars

\* C23: an end_session whose write of the session record fails once, and
\* would succeed if issued again, raises nothing and leaves the record
\* completed.
C23_RecordWriteRetried ==
    [][EndSessionReturned("record_once") =>
           /\ raised' = "none"
           /\ summaries'[1].status = "completed"]_vars

\* C24: a keeper queries the storage for its session init context at most
\* once, and the context it holds, once loaded, stays the same.
C24_InitContextLoadedOnce ==
    [][\A o \in OrchIds :
           /\ orch'[o].init_queries <= 1
           /\ (orch[o].session_init_context.loaded /\ orch'[o].key = orch[o].key) =>
                  orch'[o].session_init_context = orch[o].session_init_context]_vars

\* The headers of the sections, in the order the context is to have them
SectionHeaders ==
    <<"### Key Insights", "### Recent Session Summaries", "### Conversation Summary",
      "### Active Conversation">>

\* Whether the keeper has anything to put under a header
HasSection(keeper, header) ==
    CASE header = "### Key Insights" -> keeper.session_init_context.longterm_insight
      [] header = "### Recent Session Summaries" ->
             keeper.session_init_context.recent_summaries # {}
      [] header = "### Conversation Summary" -> keeper.cumulative_summary # 0
      [] OTHER -> keeper.turn_buffer # <<>>

\* The headers a context has, in its order
HeadersOf(parts) ==
    SelectSeq([i \in DOMAIN parts |-> parts[i][1]], LAMBDA t : t \in Range(SectionHeaders))

\* C25: the context of a keeper has the headers of its non-empty sections and
\* no other, in the order insight, recent summaries, cumulative summary,
\* turns; a keeper with no insight and no recent summary contributes no
\* wrapper either, and a keeper with nothing at all has the empty text.
C25_OnlyNonEmptySections ==
    LET keeper == orch[TheOrch]
        parts == GetCurrentContext(keeper, K)
    IN  /\ HeadersOf(parts) = SelectSeq(SectionHeaders, LAMBDA h : HasSection(keeper, h))
        /\ (~HasSection(keeper, "### Key Insights")
              /\ ~HasSection(keeper, "### Recent Session Summaries")) =>
               \A i \in DOMAIN parts :
                   parts[i][1] \notin {"<session_initialization>",
                                       "</session_initialization>"}
        /\ (\A h \in Range(SectionHeaders) : ~HasSection(keeper, h)) => IsEmptyText(parts)

\* The last min(n, Len(buf)) turns of a buffer
LastTurns(buf, n) ==
    LET m == IF n < Len(buf) THEN n ELSE Len(buf)
    IN  SubSeq(buf, Len(buf) - m + 1, Len(buf))

\* The ids of the turns a context of the keeper shows, in its order
TurnsShown(parts) ==
    LET shown == SelectSeq(parts, LAMBDA l : l[1] = "role: content")
    IN  [i \in DOMAIN shown |-> shown[i][2]]

\* C26: whatever active window N <= K is configured, after a call that
\* raised nothing the context of the keeper and the context of the
\* orchestrator hold the last min(N, buffer length) turns of the buffer, in
\* buffer order.
C26_ContextHoldsLastNTurns ==
    raised = "none" => \A N \in 1..K :
        LET buf == orch[TheOrch].turn_buffer
            want == LastTurns(buf, N)
        IN  /\ TurnsShown(GetCurrentContext(orch[TheOrch], N)) =
                   [i \in DOMAIN want |-> want[i].id]
            /\ OrchGetCurrentContext(World, TheOrch).active_turns = want

\* C35: a process_turn that raises leaves the turn buffer and the cumulative
\* summary as they were before the call.
C35_ProcessTurnAtomicOnFailure ==
    [][(nturns'[1] = nturns[1] + 2 /\ raised' # "none") =>
           /\ orch'[TheOrch].turn_buffer = orch[TheOrch].turn_buffer
           /\ orch'[TheOrch].cumulative_summary = orch[TheOrch].cumulative_summary]_vars

-----------------------------------------------------------------------------
(* Compaction (KeeperSpec) and its background work (Spec) *)

\* A step that is a call of maybe_prune: it adds no turn and runs no task
MaybePruneStep ==
    /\ called' = "maybe_prune"
    /\ nturns' = nturns
    /\ Len(tasks') >= Len(tasks)

\* C11: maybe_prune called while the buffer holds fewer than K turns changes
\* nothing: the buffer and the cumulative summary stay, no chunk write and no
\* record update is scheduled or made, and nothing is raised.
C11_BelowKIsNoOp ==
    [][(MaybePruneStep /\ Len(orch[TheOrch].turn_buffer) < K) =>
           /\ raised' = "none"
           /\ orch' = orch
           /\ tasks' = tasks
           /\ summaries' = summaries
           /\ interactions' = interactions]_vars

\* maybe_prune has returned on a buffer that holds every turn added so far,
\* fewer than K
C11_Witness ==
    /\ called = "maybe_prune"
    /\ raised = "none"
    /\ Len(orch[TheOrch].turn_buffer) > 0
    /\ Len(orch[TheOrch].turn_buffer) < K
    /\ nturns[1] = Len(orch[TheOrch].turn_buffer)
    /\ tasks = <<>>

\* C12: the cumulative summary never regresses: a model call that fails or
\* returns a blank text leaves the summary as it was, and no step makes a
\* summary that was not empty empty.
C12_SummaryNeverRegresses ==
    [][LET s == orch[TheOrch].cumulative_summary
       IN  /\ UpdateCumulativeSummary(s, "empty") = s
           /\ \A llm \in {"empty", "raise"} :
                  MaybePrune(World, TheOrch, llm).orch[TheOrch].cumulative_summary = s
           /\ (s # 0 => orch'[TheOrch].cumulative_summary # 0)
           /\ orch'[TheOrch].cumulative_summary >= s]_vars

\* The model call of a compaction failed while the summary was not empty
C12_Witness ==
    /\ called = "maybe_prune"
    /\ raised = "Exception"
    /\ orch[TheOrch].cumulative_summary # 0

\* C13: a background task of a compaction that fails raises nothing to
\* anyone and changes no orchestrator: the buffer and the cumulative summary
\* the compaction committed stay as they are.
C13_BackgroundFailureSwallowed ==
    [][Len(tasks') < Len(tasks) =>
           /\ raised' = "none"
           /\ \A o \in OrchIds : orch'[o] = orch[o] \/ orch'[o] = FreeSlot]_vars

\* A compaction of a pooled session committed a summary, its tasks have run,
\* and the chunk write failed
C13_Witness ==
    \E k \in Range(sessions) :
        /\ orch[state[k].orch].cumulative_summary # 0
        /\ Len(orch[state[k].orch].turn_buffer) < nturns[k]
        /\ tasks = <<>>
        /\ interactions[k] = <<>>
        /\ raised = "none"

\* C27: add_turn puts its turn at the end of the buffer and leaves the turns
\* before it as they were; maybe_prune leaves a suffix of the buffer; so the
\* buffer always holds the turns handed to add_turn last, each once, in the
\* order of the calls.
C27_TurnOrderPreserved ==
    [][LET buf == orch[TheOrch].turn_buffer
           after == orch'[TheOrch].turn_buffer
       IN  /\ (nturns'[1] = nturns[1] + 1) =>
                  /\ Len(after) = Len(buf) + 1
                  /\ SubSeq(after, 1, Len(buf)) = buf
                  /\ after[Len(after)].id = nturns'[1]
           /\ MaybePruneStep =>
                  \E n \in 0..Len(buf) : after = SubSeq(buf, n + 1, Len(buf))
           /\ \A i \in 1..Len(after) : after[i].id = nturns'[1] - Len(after) + i]_vars

\* A compaction has removed the oldest turns and left more than one
C27_Witness ==
    /\ called = "maybe_prune"
    /\ raised = "none"
    /\ Len(orch[TheOrch].turn_buffer) >= 2
    /\ orch[TheOrch].turn_buffer[1].id > 1

\* C28: at most one maybe_prune of a session is inside its await at a time,
\* and the turns a maybe_prune takes off the buffer when it resumes are the
\* turns it selected before the await and hands to the chunk write.
C28_CompactionsSequential ==
    [][/\ Cardinality(pruning') <= 1
       /\ \A p \in pruning \ pruning' :
              raised' = "none" =>
                  /\ orch[p.orch].turn_buffer =
                         p.turns_to_prune \o orch'[p.orch].turn_buffer
                  /\ tasks'[Len(tasks')].turns = p.turns_to_prune]_vars

\* Two compactions of the session have run, one after the other
C28_Witness ==
    /\ pruning = {}
    /\ called = "process_turn"
    /\ orch[TheOrch].cumulative_summary = 2
    /\ \E i, j \in DOMAIN tasks :
           /\ i < j
           /\ tasks[i].kind = "chunk" /\ tasks[j].kind = "chunk"
           /\ TurnIds(tasks[i].turns) \cap TurnIds(tasks[j].turns) = {}

\* A step in which a compaction fires: maybe_prune, called by itself or at the
\* end of process_turn, schedules its two background tasks
CompactionFires == Len(tasks') = Len(tasks) + 2

\* C31: whenever a compaction fires, the turn buffer is empty when maybe_prune
\* returns.
C31_CompactionDrainsBuffer ==
    [][CompactionFires => orch'[TheOrch].turn_buffer = <<>>]_vars

\* A step in which the loop runs the chunk write at the head of the tasks
ChunkWriteRuns ==
    /\ tasks # <<>>
    /\ tasks' = Tail(tasks)
    /\ Head(tasks).kind = "chunk"

\* C32: the chunk a compaction schedules holds exactly the turns the
\* compaction took off the buffer, the K oldest in buffer order (the turns it
\* summarized), and the chunk write stores the text of these turns and of no
\* other.
C32_ChunkHoldsRemovedTurns ==
    [][LET buf == orch[TheOrch].turn_buffer
           after == orch'[TheOrch].turn_buffer
           chunk == tasks'[Len(tasks')]
           stored == interactions'[orch[TheOrch].key]
       IN  /\ CompactionFires =>
                  /\ chunk.kind = "chunk"
                  /\ chunk.turns = TakeFirst(buf, K)
                  /\ chunk.turns = MaybePruneSelect(World, TheOrch, 0).turns_to_prune
                  /\ Len(chunk.turns) = K
                  /\ buf = chunk.turns \o after
           /\ (ChunkWriteRuns /\ interactions' # interactions) =>
                  /\ Len(stored) = Len(interactions[orch[TheOrch].key]) + 1
                  /\ stored[Len(stored)] = ConversationText(Head(tasks).turns)]_vars

\* The chunk of a compaction that left turns in the buffer has been written
C32_Witness ==
    /\ interactions[1] # <<>>
    /\ Len(ParseContent(interactions[1][1])) = K
    /\ orch[TheOrch].turn_buffer # <<>>
    /\ orch[TheOrch].turn_buffer[1].id = K + 1

-----------------------------------------------------------------------------
(* Properties of the pool (PoolSpec) *)

\* A get_or_create that missed returns: its handler runs from the insertion on
MissReturns == inflight # {} /\ inflight' # inflight

\* The keys the trace of the step says were evicted for capacity
CapacityEvicted ==
    {trace'[i].key : i \in {j \in DOMAIN trace' :
                              trace'[j].ev = "del" /\ trace'[j].by = "capacity"}}

\* C14: capacity eviction is LRU: the entry a miss evicts was in the pool
\* before the insertion and no other entry of the pool was used less recently.
C14_CapacityEvictsLru ==
    [][MissReturns =>
           \A k \in CapacityEvicted :
               /\ k \in Range(sessions)
               /\ \A j \in Range(sessions) :
                      state[j].last_accessed >= state[k].last_accessed]_vars

\* Of three sessions built in turn for a pool of two, the first was hit again
\* and stayed; the second was evicted for the third
C14_Witness ==
    /\ max_sessions = 2
    /\ Len(sessions) = 2
    /\ state[sessions[1]].orch = 1
    /\ state[sessions[2]].orch = 3
    /\ \E i \in DOMAIN trace : trace[i].ev = "del" /\ trace[i].by = "capacity"

\* C15: a get_or_create that misses evicts one entry if the pool holds more
\* than max_sessions entries after its insertion and none otherwise; no other
\* step (a hit among them) evicts for capacity.
C15_OneEvictionPerInsert ==
    [][IF MissReturns
       THEN Cardinality(Range(sessions) \ Range(sessions')) =
                (IF Len(sessions) + 1 > max_sessions THEN 1 ELSE 0)
       ELSE trace' = trace \/ CapacityEvicted = {}]_vars

\* A miss on a full pool has evicted an entry and left the pool full
C15_Witness ==
    /\ Len(sessions) = max_sessions
    /\ inflight = {}
    /\ Len(trace) > 0
    /\ \A i \in DOMAIN trace : trace[i].ev = "del" => trace[i].by = "capacity"

\* A step that is a get_or_create hit on k and nothing else: k moves to the
\* end of the order and no turn is stored
HitStep(k) ==
    /\ k \in Range(sessions)
    /\ sessions' = Append(Without(sessions, k), k)
    /\ sessions' # sessions
    /\ nturns' = nturns

\* The get_or_create calls that return in the step after building an entry
Returned == inflight \ inflight'

\* C40: the pool never holds more than max_sessions entries, so neither after
\* a get_or_create has returned, whatever calls of get_or_create, remove and
\* the sweep ran before it; and the entry a get_or_create returns is in the
\* pool when it returns, under the orchestrator that was handed out.
C40_PoolWithinCapacity ==
    [][/\ Len(sessions') <= max_sessions
       /\ Cardinality(Range(sessions')) = Len(sessions')
       /\ \A c \in Returned :
              /\ c.key \in Range(sessions')
              /\ state'[c.key].orch = c.orch
       /\ \A k \in Keys : HitStep(k) => k \in Range(sessions')]_vars

\* A pool of one session has evicted its first session for the second, which
\* it holds, after a remove or a sweep had emptied it once
C40_Witness ==
    /\ max_sessions = 1
    /\ Len(sessions) = 1
    /\ inflight = {}
    /\ nextOrch = 4
    /\ state[sessions[1]].orch = 3
    /\ \E i \in DOMAIN trace :
           trace[i].ev = "del" /\ trace[i].by = "capacity" /\ trace[i].key # sessions[1]

\* C16: a get_or_create hit changes the entry's last_accessed and its place
\* in the order, and nothing else: no write, no orchestrator built, the same
\* keys, dirty flags, buffers and summaries.
C16_HitFrame ==
    [][/\ \A k \in Range(sessions) :
              LET w == GetOrCreateHit(World, k)
              IN  /\ w.sessions = Append(Without(sessions, k), k)
                  /\ w.state = [state EXCEPT ![k].last_accessed = 0]
                  /\ w.ret = state[k].orch
                  /\ w.orch = orch /\ w.nextOrch = nextOrch
                  /\ w.summaries = summaries /\ w.interactions = interactions
                  /\ w.tasks = tasks /\ w.trace = <<>> /\ w.exc = "none"
       /\ \A k \in Keys :
              HitStep(k) =>
                  /\ state' = [state EXCEPT ![k].last_accessed = 0]
                  /\ orch' = orch /\ nextOrch' = nextOrch
                  /\ summaries' = summaries /\ interactions' = interactions
                  /\ tasks' = tasks /\ raised' = "none"]_vars

\* A session that never stored a turn was built before a session that is
\* dirty, and was hit after it: it is the most recently used of the two
C16_Witness ==
    /\ Len(sessions) = 2
    /\ inflight = {}
    /\ state[sessions[2]].orch < state[sessions[1]].orch
    /\ state[sessions[2]].last_accessed = 0
    /\ nturns[sessions[2]] = 0
    /\ state[sessions[1]].dirty
    /\ state[sessions[1]].last_accessed < 0

\* The events of a trace, without their keys
Events(t) == [i \in DOMAIN t |-> t[i].ev]

\* A step in which remove takes k out of the pool
RemoveStep(k) ==
    /\ k \in Range(sessions)
    /\ k \notin Range(sessions')
    /\ \E i \in DOMAIN trace' :
           trace'[i].ev = "del" /\ trace'[i].key = k /\ trace'[i].by = "remove"

\* C18: remove persists a dirty entry before it deletes it when persist is
\* true, writes nothing when persist is false or the entry is clean, leaves
\* the key absent and the other entries as they were, and does nothing for a
\* key the pool does not hold.
C18_RemoveContract ==
    [][/\ \A k \in Keys, persist \in BOOLEAN, ok \in BOOLEAN :
              LET w == Remove(World, k, persist, ok)
              IN  IF k \notin Range(sessions)
                  THEN w = World
                  ELSE /\ w.sessions = Without(sessions, k)
                       /\ \A j \in Keys \ {k} :
                              w.state[j] = state[j] /\ w.summaries[j] = summaries[j]
                       /\ w.orch = orch
                       /\ w.exc = "none"
                       /\ IF persist /\ state[k].dirty
                          THEN /\ Events(w.trace) \in {<<"persist", "write", "del">>,
                                                       <<"persist", "del">>}
                               /\ ok => /\ w.summaries[k].cumulative_summary =
                                               orch[state[k].orch].cumulative_summary
                                        /\ w.summaries[k].turn_count =
                                               Len(orch[state[k].orch].turn_buffer)
                          ELSE /\ Events(w.trace) = <<"del">>
                               /\ w.summaries = summaries
       /\ \A k \in Keys :
              RemoveStep(k) =>
                  /\ sessions' = Without(sessions, k)
                  /\ \A j \in Keys \ {k} : state'[j] = state[j]
                  /\ (~state[k].dirty => summaries' = summaries)]_vars

\* remove has persisted a dirty entry and then deleted it
C18_Witness ==
    \E k \in Keys :
        /\ k \notin Range(sessions)
        /\ Events(trace) = <<"persist", "write", "del">>
        /\ trace[3].key = k /\ trace[3].by = "remove" /\ trace[3].dirty

\* A step in which evict_stale_sessions evicts what it selected
SweepStep == sweep.pc = "evict" /\ sweep'.pc = "idle"

\* C19: one run of evict_stale_sessions removes the entries older than the
\* TTL and no other, runs the persistence step of each dirty one before its
\* removal, and leaves the rest (an entry as old as the TTL among them) with
\* their state and order.
C19_SweepRemovesExactlyStale ==
    [][SweepStep =>
           LET stale == {k \in Range(sessions) : 0 - state[k].last_accessed > SESSION_TTL}
           IN  /\ sessions' = SelectSeq(sessions, LAMBDA k : k \notin stale)
               /\ \A k \in Range(sessions') : state'[k] = state[k]
               /\ raised' = "none"
               /\ \A k \in stale :
                      state[k].dirty =>
                          \E i, j \in DOMAIN trace' :
                              /\ i < j
                              /\ trace'[i].ev = "persist" /\ trace'[i].key = k
                              /\ trace'[j].ev = "del" /\ trace'[j].key = k
                              /\ trace'[j].by = "ttl"]_vars

\* The scan has selected a dirty entry and passed over one exactly as old as
\* the TTL
C19_Witness ==
    /\ sweep.pc = "evict"
    /\ \E k \in Range(sweep.to_evict) : state[k].dirty
    /\ \E k \in Range(sessions) \ Range(sweep.to_evict) :
           0 - state[k].last_accessed = SESSION_TTL

\* C20: shutdown leaves the pool empty, and the record of every entry that
\* was dirty when it started holds the entry's cumulative summary and turn
\* count.
C20_ShutdownPersistsDirty ==
    [][(sweep.pc # "stopped" /\ sweep'.pc = "stopped") =>
           /\ sessions' = <<>>
           /\ \A k \in Range(sessions) :
                  state[k].dirty =>
                      /\ summaries'[k].exists
                      /\ summaries'[k].cumulative_summary =
                             orch[state[k].orch].cumulative_summary
                      /\ summaries'[k].turn_count =
                             Len(orch[state[k].orch].turn_buffer)]_vars

\* C21: a dirty entry that leaves the pool through an operation that runs its
\* persistence step (TTL sweep, capacity eviction, remove with persist,
\* shutdown) leaves it only when the write of that step succeeded.
C21_DestroyedOnlyIfPersisted ==
    \A i \in DOMAIN trace :
        (/\ trace[i].ev = "del"
         /\ trace[i].dirty
         /\ \E j \in DOMAIN trace : trace[j].ev = "persist" /\ trace[j].key = trace[i].key)
        => \E j \in DOMAIN trace : trace[j].ev = "write" /\ trace[j].key = trace[i].key

-----------------------------------------------------------------------------
(* Properties of the server, continued (Spec) *)

\* C17: a get_or_create that misses raises nothing when the session has no
\* record: with restore=True it falls back to initialize_session, with
\* restore=False (end_session) it never restores; the record is active and the
\* entry is in the pool when the call returns.
C17_NotFoundFallsBack ==
    [][/\ (inflight = {} /\ inflight' # {}) =>
              /\ raised' = "none"
              /\ \A c \in inflight' :
                     /\ c.path \in {"init", "restore"}
                     /\ (c.op = "end" => c.path = "init")
                     /\ (~summaries[c.key].exists => c.path = "init")
                     /\ summaries'[c.key].exists
                     /\ summaries'[c.key].status = "active"
       /\ \A c \in inflight \ inflight' :
              c.op # "end" =>
                  c.key \in Range(sessions') /\ state'[c.key].orch = c.orch]_vars

\* The first store_turn of a session nobody started: there is no record to
\* restore and the call is going on with a new session
C17_Witness ==
    \E c \in inflight :
        /\ c.op = "store"
        /\ c.path = "init"
        /\ nextOrch = 2
        /\ summaries[c.key].status = "active"

\* A step in which a store_turn of key k returns without raising
StoreTurnReturns(k) == accepted'[k] # accepted[k]

\* C33: when a store_turn has returned, the pool entry of its key is dirty; an
\* entry that is dirty stays dirty as long as it is in the pool; and a clean
\* entry holds no accepted turn that is not in a stored chunk, and no
\* cumulative summary but the one restored from its record.
C33_ProcessedTurnMarksDirty ==
    [][\A k \in ServerKeys :
           LET held == k \in Range(sessions)
               held_after == k \in Range(sessions')
               keeper == orch'[state'[k].orch]
           IN  /\ StoreTurnReturns(k) => held_after /\ state'[k].dirty
               /\ (held /\ state[k].dirty /\ held_after /\ state'[k].orch = state[k].orch)
                      => state'[k].dirty
               /\ (held_after /\ ~state'[k].dirty) =>
                      /\ \A t \in TurnIds(keeper.turn_buffer) \cap accepted'[k] :
                             \E i \in DOMAIN interactions'[k] :
                                 t \in ChunkIds(interactions'[k][i])
                      /\ keeper.cumulative_summary \in
                             {0, summaries'[k].cumulative_summary}]_vars

\* A store_turn has returned on an entry that an earlier store_turn made dirty
C33_Witness ==
    \E k \in ServerKeys :
        /\ k \in Range(sessions)
        /\ state[k].dirty
        /\ Cardinality(accepted[k]) >= 4
        /\ raised = "none"

\* C36: no turn is stored in more than one chunk of its session.
C36_TurnStoredOnce ==
    \A k \in Keys : \A i, j \in DOMAIN interactions[k] :
        i # j => ChunkIds(interactions[k][i]) \cap ChunkIds(interactions[k][j]) = {}

\* The end_session requests that get_or_create has just built an orchestrator
\* for, the session having no entry in the pool
EndBegun == {c \in inflight' \ inflight : c.op = "end"}

\* C39: end_session on a session that has no entry in the pool while its
\* record is not completed (its entry was evicted) works on the session's state: the
\* orchestrator it ends holds the cumulative summary that was persisted last,
\* and the cumulative summary of the active record is not emptied.
C39_EndOfEvictedSessionSeeded ==
    [][\A c \in EndBegun :
           (summaries[c.key].exists /\ summaries[c.key].status # "completed") =>
               /\ orch'[c.orch].cumulative_summary = summaries[c.key].cumulative_summary
               /\ summaries'[c.key].cumulative_summary =
                      summaries[c.key].cumulative_summary]_vars

-----------------------------------------------------------------------------
(* Properties of the read endpoints (ReadSpec) *)

\* C38: get_insights and get_summaries leave the sessions as they are: the
\* pool holds the same keys before and after (no live session is evicted,
\* also at capacity) and the store holds no session record it did not hold.
C38_ReadEndpointsFrame ==
    [][called' # called =>
           /\ Range(sessions') = Range(sessions)
           /\ \A k \in Keys : summaries'[k].exists => summaries[k].exists]_vars

-----------------------------------------------------------------------------
(* Properties of the eviction loop (LifeSpec) *)

\* An entry of the pool whose age exceeds the TTL
Stale(k) == k \in Range(sessions) /\ 0 - state[k].last_accessed > SESSION_TTL

\* A step in which a run of evict_stale_sessions ends
SweepRunEnds == sweep.pc = "evict" /\ sweep'.pc # "evict"

====
